---- MODULE Spec2Model ----
(***************************************************************************)
(* A model of next-plugin-preval's webpack loader (src/src/loader.ts):     *)
(* _prevalLoader registers a process-wide babel hook, loads the target     *)
(* module, awaits its default export, reverts the hook, validates the      *)
(* resolved value and emits `module.exports = JSON.parse("...")`.          *)
(*                                                                         *)
(* JavaScript runs to completion: `cur` names the evaluation that holds    *)
(* the thread; it is released only where the code awaits.                  *)
(*                                                                         *)
(* Spec        evaluations the host may start while others are awaiting    *)
(* SpecLoader  the same, with the loader's completion callback             *)
(* SpecResolve the alias resolver's resolvePath over configurations/files  *)
(* SpecCodec   validate, encode, and the consumer's evaluation of the text *)
(***************************************************************************)
EXTENDS Integers, Sequences, FiniteSets, TLC

\* ------------------------------------------------------------------ bounds
NumEvals == 2

Evals == 1..NumEvals
Resources == {"/a.preval.ts", "/b.preval.ts"}

NoHook == 0
NoEval == 0

\* ------------------------------------------------------- JavaScript values
\* A value is a record tagged by t; each tag has its own payload field.
JNull == [t |-> "null"]
JUndef == [t |-> "undef"]
JFn == [t |-> "fn"]
JBool(b) == [t |-> "bool", b |-> b]
\* A number is n * 10^e, n without trailing zeros (0 is 0 * 10^0).
RECURSIVE JDec(_, _)
JDec(n, e) == IF n = 0 THEN [t |-> "num", n |-> 0, e |-> 0]
              ELSE IF n % 10 = 0 THEN JDec(n \div 10, e + 1)
              ELSE [t |-> "num", n |-> n, e |-> e]
JNum(n) == JDec(n, 0)
\* The number -0: equal to 0 as a number, and told apart by Object.is and 1/x.
NegZero == [t |-> "num", n |-> 0, e |-> 0, negative |-> TRUE]
\* Infinity and -Infinity: numbers that are not finite.
Infinity(negative) == [t |-> "inf", negative |-> negative]
JStr(s) == [t |-> "str", s |-> s]
JArr(items) == [t |-> "arr", items |-> items]
JObj(props) == [t |-> "obj", props |-> props]

\* Values a user computation resolves to in the evaluation model.
DataOk == JObj(<< <<<<"a">>, JNum(1)>>, <<<<"b">>, JArr(<<JNum(1), JNum(2)>>)>> >>)
DataFn == JObj(<< <<<<"f">>, JFn>> >>)
DataStr == JStr(<<"a", "\"">>)
ResolvedValues == {DataOk, DataFn, DataStr, JNull}

\* Values that can be thrown or rejected with: what loader.ts reads of them is
\* typeof, null-ness, Array.isArray, `'stack' in e`, e.stack and String(e).
\* stk is the value of e.stack: a text, or undefined. The stack of an Error
\* begins with String(e); its frames are left out.
NoString == "<cannot convert>"
StackText(s) == [t |-> "text", s |-> s]
ThrownValue(ty, nul, arr, stack, stk, str) ==
    [ty |-> ty, nul |-> nul, arr |-> arr, stack |-> stack, stk |-> stk, str |-> str]
ErrorObject(str) == ThrownValue("object", FALSE, FALSE, TRUE, StackText(str), str)
ErrObj == ErrorObject("Error: boom")
Thrown ==
    { ErrObj,
      ThrownValue("string", FALSE, FALSE, FALSE, JUndef, "boom"),                    \* 'boom'
      ThrownValue("object", FALSE, FALSE, FALSE, JUndef, "[object Object]"),         \* {}
      ThrownValue("object", FALSE, FALSE, TRUE, StackText("S"), "[object Object]"),  \* {stack: 'S'}
      ThrownValue("object", FALSE, FALSE, TRUE, JUndef, "[object Object]"),          \* {stack: undefined}
      ThrownValue("object", FALSE, TRUE, FALSE, JUndef, "x"),                        \* ['x']
      ThrownValue("object", TRUE, FALSE, FALSE, JUndef, "null"),                     \* null
      ThrownValue("symbol", FALSE, FALSE, FALSE, JUndef, NoString) }                 \* Symbol()

\* new PrevalError('No default export. Did you forget to `export default`?'), the
\* backquotes of the source text left out of the strings. PrevalError sets no
\* name of its own, so String(e) starts with "Error: ".
NoDefaultText == "No default export. Did you forget to export default?"
NoDefaultError == ErrorObject("Error: " \o NoDefaultText)

\* The TypeError of reading .default of a module.exports that is null or
\* undefined (what is "null" or "undefined").
CannotReadDefault(what) ==
    ErrorObject("TypeError: Cannot read properties of " \o what \o " (reading 'default')")

\* What a loaded module exports: no exports object at all (module.exports is
\* null or undefined), or its default export: absent, a promise (the user's
\* computation), or a value that is no promise.
NoExports(what) == [kind |-> "noexports", what |-> what]
Absent == [kind |-> "absent"]
APromise == [kind |-> "promise"]
PlainValue(v) == [kind |-> "value", val |-> v]
DefaultExports == {NoExports("null"), Absent, APromise, PlainValue(DataOk), PlainValue(JNum(0))}

\* -------------------------------------------------------------- characters
\* Text is a sequence of UTF-16 code units. A code unit is a string: the
\* character itself where it can be written here (printable ASCII, tab, line
\* feed, form feed, carriage return), and "U+" with its four lower-case
\* hexadecimal digits otherwise ("U+0008" is backspace, "U+d800" a surrogate).
DigitChars == <<"0", "1", "2", "3", "4", "5", "6", "7", "8", "9">>
HexChars == DigitChars \o <<"a", "b", "c", "d", "e", "f">>

Hex4(n) == <<HexChars[((n \div 4096) % 16) + 1], HexChars[((n \div 256) % 16) + 1],
             HexChars[((n \div 16) % 16) + 1], HexChars[(n % 16) + 1]>>
Unit(n) == "U+" \o HexChars[((n \div 4096) % 16) + 1] \o HexChars[((n \div 256) % 16) + 1]
                \o HexChars[((n \div 16) % 16) + 1] \o HexChars[(n % 16) + 1]

\* The code units 32..126 in order; the grave accent (96) goes by its name.
Printable ==
    <<" ", "!", "\"", "#", "$", "%", "&", "'", "(", ")", "*", "+", ",", "-", ".", "/",
      "0", "1", "2", "3", "4", "5", "6", "7", "8", "9", ":", ";", "<", "=", ">", "?",
      "@", "A", "B", "C", "D", "E", "F", "G", "H", "I", "J", "K", "L", "M", "N", "O",
      "P", "Q", "R", "S", "T", "U", "V", "W", "X", "Y", "Z", "[", "\\", "]", "^", "_",
      "U+0060", "a", "b", "c", "d", "e", "f", "g", "h", "i", "j", "k", "l", "m", "n", "o",
      "p", "q", "r", "s", "t", "u", "v", "w", "x", "y", "z", "{", "|", "}", "~">>

\* The code unit with number n.
FromCode(n) ==
    CASE n = 9 -> "\t"
      [] n = 10 -> "\n"
      [] n = 12 -> "\f"
      [] n = 13 -> "\r"
      [] n \in 32..126 -> Printable[n - 31]
      [] OTHER -> Unit(n)

\* The control characters (below U+0020) and the surrogates, with their digits.
\* A character written as itself, one character long or the grave accent, is
\* told apart first.
IsWritten(c) == Len(c) = 1 \/ c = Printable[65]
IsControl(c) == c \in {"\t", "\n", "\f", "\r"} \/ (~IsWritten(c) /\ \E n \in 0..31 : Unit(n) = c)
IsHighSurrogate(c) == ~IsWritten(c) /\ \E n \in 55296..56319 : Unit(n) = c
IsLowSurrogate(c) == ~IsWritten(c) /\ \E n \in 56320..57343 : Unit(n) = c

\* ------------------------------------------------------------ JSON.stringify
RECURSIVE Digits(_)
Digits(n) == IF n < 10 THEN <<DigitChars[n + 1]>>
             ELSE Digits(n \div 10) \o <<DigitChars[(n % 10) + 1]>>

\* String(n) of an integer n (an array index, an exponent).
NumText(n) == IF n < 0 THEN <<"-">> \o Digits(0 - n) ELSE Digits(n)

Zeros(k) == [i \in 1..k |-> "0"]

\* Number::toString of the number v.n * 10^v.e (v.n without trailing zeros):
\* plain digits up to 21 of them, a decimal point inside, leading "0.0..." down
\* to 1e-6, and the exponent form beyond. A number of the model is a double,
\* named by the shortest decimal that reads back as it, of at most ten digits:
\* the digits Number::toString writes.
NumberToString(v) ==
    LET neg == v.n < 0
        d == Digits(IF neg THEN 0 - v.n ELSE v.n)
        k == Len(d)
        n == k + v.e
        x == n - 1
        ex == <<"e", IF x < 0 THEN "-" ELSE "+">> \o Digits(IF x < 0 THEN 0 - x ELSE x)
        body == IF v.n = 0 THEN <<"0">>
                ELSE IF k <= n /\ n <= 21 THEN d \o Zeros(n - k)
                ELSE IF 0 < n /\ n <= 21 THEN SubSeq(d, 1, n) \o <<".">> \o SubSeq(d, n + 1, k)
                ELSE IF 0 - 6 < n /\ n <= 0 THEN <<"0", ".">> \o Zeros(0 - n) \o d
                ELSE IF k = 1 THEN d \o ex
                ELSE <<d[1], ".">> \o SubSeq(d, 2, k) \o ex
    IN IF neg THEN <<"-">> \o body ELSE body

EscapeQuoteOnly(c) == IF c = "\"" THEN <<"\\", "\"">> ELSE <<c>>
\* QuoteJSONString for one code unit standing alone: the short escapes, \uXXXX
\* for the other control characters and for a lone surrogate, and every other
\* code unit as it is.
EscapeChar(c) ==
    CASE c = "\"" -> <<"\\", "\"">>
      [] c = "\\" -> <<"\\", "\\">>
      [] c = "\n" -> <<"\\", "n">>
      [] c = "\t" -> <<"\\", "t">>
      [] c = "\r" -> <<"\\", "r">>
      [] c = "\f" -> <<"\\", "f">>
      [] c = Unit(8) -> <<"\\", "b">>
      [] IsControl(c) \/ IsHighSurrogate(c) \/ IsLowSurrogate(c) ->
             <<"\\", "u">> \o Hex4(CHOOSE n \in (0..31) \cup (55296..57343) : FromCode(n) = c)
      [] OTHER -> <<c>>

\* A high surrogate followed by a low one is one code point and stays as it is.
RECURSIVE EscapeAll(_)
EscapeAll(s) ==
    IF s = <<>> THEN <<>>
    ELSE IF Len(s) >= 2 /\ IsHighSurrogate(s[1]) /\ IsLowSurrogate(s[2])
         THEN <<s[1], s[2]>> \o EscapeAll(SubSeq(s, 3, Len(s)))
    ELSE EscapeChar(Head(s)) \o EscapeAll(Tail(s))

\* JSON.stringify of a string: the quoted, escaped text.
QuoteJSON(s) == <<"\"">> \o EscapeAll(s) \o <<"\"">>

\* JSON.stringify leaves out a property whose value is undefined or a function,
\* writes null for such an array element, and returns undefined, no text at
\* all, for such a value itself. Every text it returns has a character. A
\* number that is not finite is written as null.
Omitted(v) == v.t \in {"undef", "fn"}
NoText == <<>>
NullText == <<"n", "u", "l", "l">>

RECURSIVE Stringify(_), StringifyItems(_), StringifyProps(_, _)
Stringify(v) ==
    CASE v.t = "null" -> NullText
      [] v.t = "bool" -> IF v.b THEN <<"t", "r", "u", "e">> ELSE <<"f", "a", "l", "s", "e">>
      [] v.t = "num" -> NumberToString(v)
      [] v.t = "inf" -> NullText
      [] v.t = "str" -> QuoteJSON(v.s)
      [] v.t = "arr" -> <<"[">> \o StringifyItems(v.items) \o <<"]">>
      [] v.t = "obj" -> <<"{">> \o StringifyProps(v.props, TRUE) \o <<"}">>
      [] OTHER -> NoText

StringifyItems(items) ==
    IF items = <<>> THEN <<>>
    ELSE (IF Omitted(Head(items)) THEN NullText ELSE Stringify(Head(items)))
         \o (IF Tail(items) = <<>> THEN <<>> ELSE <<",">> \o StringifyItems(Tail(items)))

\* Properties in enumeration order; first says no property was written yet.
StringifyProps(props, first) ==
    IF props = <<>> THEN <<>>
    ELSE IF Omitted(Head(props)[2]) THEN StringifyProps(Tail(props), first)
    ELSE (IF first THEN <<>> ELSE <<",">>)
         \o QuoteJSON(Head(props)[1]) \o <<":">> \o Stringify(Head(props)[2])
         \o StringifyProps(Tail(props), FALSE)

\* `module.exports = JSON.parse(${JSON.stringify(JSON.stringify(data))})`: of no
\* text the outer JSON.stringify makes undefined again, which the template
\* literal writes as the word undefined.
FragmentHead == "module.exports = JSON.parse("
FragmentTail == ")"
UndefinedWord == <<"u", "n", "d", "e", "f", "i", "n", "e", "d">>
Encode(data) ==
    <<FragmentHead>>
    \o (IF Stringify(data) = NoText THEN UndefinedWord ELSE QuoteJSON(Stringify(data)))
    \o <<FragmentTail>>

\* -------------------------------------------------------------- isSerializable
\* The first non-data construct of a value in traversal order, with the path
\* of keys leading to it; a value with none is accepted.
Accepted == [bad |-> FALSE]
Rejected(path) == [bad |-> TRUE, path |-> path]

RECURSIVE FirstBad(_, _), FirstBadItem(_, _, _), FirstBadProp(_, _)
FirstBad(v, path) ==
    CASE v.t \in {"null", "bool", "num", "str"} -> Accepted
      [] v.t = "arr" -> FirstBadItem(v.items, 1, path)
      [] v.t = "obj" -> FirstBadProp(v.props, path)
      [] OTHER -> Rejected(path)

FirstBadItem(items, i, path) ==
    IF i > Len(items) THEN Accepted
    ELSE LET r == FirstBad(items[i], Append(path, NumText(i - 1)))
         IN IF r.bad THEN r ELSE FirstBadItem(items, i + 1, path)

FirstBadProp(props, path) ==
    IF props = <<>> THEN Accepted
    ELSE LET r == FirstBad(Head(props)[2], Append(path, Head(props)[1]))
         IN IF r.bad THEN r ELSE FirstBadProp(Tail(props), path)

isSerializable(resource, data) == FirstBad(data, <<>>)

\* ------------------------------------------------------------ loader helpers
\* typeof something === 'object' && !!something && !Array.isArray(something)
isRecord(something) == something.ty = "object" /\ ~something.nul /\ ~something.arr

\* isRecord(e) && 'stack' in e
HasStackToLog(e) == isRecord(e) /\ e.stack

LogTag == "[next-plugin-preval]"
LogLineUntagged(e) == <<"", e.stk>>
\* console.error('[next-plugin-preval]', e.stack)
LogLine(e) == <<LogTag, e.stk>>

\* ${e} in a template literal: ToString(e), which throws a TypeError for a Symbol.
ToStringThrows(e) == e.str = NoString

PrevalErrorOf(msg) == [cls |-> "PrevalError", msg |-> msg]
TypeErrorOf(msg) == [cls |-> "TypeError", msg |-> msg]
SerializationErrorOf(resource, path) == [cls |-> "SerializationError", msg |-> <<resource, path>>]

\* `Failed to pre-evaluate "${resource}". ${e} See above for full stack trace.`
FailureMessage(resource, e) ==
    <<"Failed to pre-evaluate \"", resource, "\". ", e.str, " See above for full stack trace.">>

\* What the catch block throws for the caught value e.
CatchThrows(resource, e) ==
    IF ToStringThrows(e)
    THEN TypeErrorOf(<<"Cannot convert a Symbol value to a string">>)
    ELSE PrevalErrorOf(FailureMessage(resource, e))

\* JavaScript truthiness of a data value.
TruthyValue(v) ==
    CASE v.t \in {"null", "undef"} -> FALSE
      [] v.t = "bool" -> v.b
      [] v.t = "num" -> v.n # 0
      [] v.t = "str" -> v.s # <<>>
      [] OTHER -> TRUE

\* mod.default of a module.exports without properties to read throws.
ReadDefaultThrows(d) == d.kind = "noexports"

DefaultMissingAbsentOnly(d) == d.kind = "absent"
\* !mod.default
DefaultMissing(d) ==
    CASE d.kind = "absent" -> TRUE
      [] d.kind = "promise" -> FALSE
      [] OTHER -> ~TruthyValue(d.val)

\* `await x` of an x that is no promise gives x itself.
AwaitedValue(d) == IF d.kind = "value" THEN d.val ELSE JUndef

\* @babel/register: register installs the one process-wide hook (replacing any
\* earlier one), revert removes whatever hook is installed.
registerSkipped(h, e) == h
registerIfNone(h, e) == IF h = NoHook THEN e ELSE h
register(h, e) == e
revertLeaky(h) == h
revert(h) == NoHook

\* The finally block runs on every completion of the try statement.
RevertsAtEndOfTry(completion) == completion.kind = "normal"
FinallyReverts(completion) == TRUE

VARIABLES
    hook,      \* the process-wide @babel/register hook: NoHook, or the evaluation that registered it
    cur,       \* the evaluation running synchronously, or NoEval
    cache,     \* require.cache: resource -> the default export of its loaded module, or "none"
    comp,      \* the state of the cached module's computation, per resource
    pc,        \* each evaluation's position in _prevalLoader
    res,       \* each evaluation's resource path
    mod,       \* each evaluation's loaded module (its default export)
    caught,    \* the value caught by `catch (e)`
    done,      \* the completion of the inner async function: normal(value) or throw(error)
    result,    \* what the promise returned by _prevalLoader settled with
    registers, \* how many times each evaluation called register
    reverts,   \* how many times each evaluation called revert
    logged,    \* the console.error lines each evaluation wrote
    calls,     \* the loader's uses of webpack's completion callback, per evaluation
    overlapped, \* whether some evaluation was started while another was in flight
    rv,        \* the alias resolver: its configuration and its last resolution
    cv         \* the emitted fragment on its way through the consumer

vars == <<hook, cur, cache, comp, pc, res, mod, caught, done, result, registers, reverts, logged,
          calls, overlapped, rv, cv>>

\* The variables of the evaluations, and those of the resolver and the consumer.
evalVars == <<hook, cur, cache, comp, pc, res, mod, caught, done, result, registers, reverts, logged,
              calls, overlapped>>
auxVars == <<rv, cv>>

\* ------------------------------------------------------ the alias resolver
\* loader.ts 19
defaultExtensions == <<".js", ".jsx", ".ts", ".tsx">>
ExtensionOptions == {defaultExtensions, <<".ts">>}

\* An import specifier: relative ("./x"), or a head and what follows its slash
\* ("@lib/x", "lodash").
Spec_(rel, head, rest) == [rel |-> rel, head |-> head, rest |-> rest]
Specifiers ==
    {Spec_(FALSE, "@lib", "x"), Spec_(FALSE, "@lib", "y"),
     Spec_(FALSE, "lodash", ""), Spec_(TRUE, ".", "x")}
FullName(sp) == IF sp.rest = "" THEN sp.head ELSE sp.head \o "/" \o sp.rest

\* A path is the sequence of its segments: <<"root", "lib", "x.ts">> is
\* /root/lib/x.ts.
\* loadConfig(): failed, or the base directory and the alias patterns, each
\* pattern "<head>/*" with its candidate target directories in order.
BaseUrl == <<"root">>
ConfigFailed == [resultType |-> "failed", paths |-> <<>>]
ConfigOf(paths) == [resultType |-> "success", paths |-> paths]
Alias(head, targets) == [head |-> head, targets |-> targets]
Configs ==
    {ConfigFailed,
     ConfigOf(<<>>),
     ConfigOf(<<Alias("@lib", << <<"root", "missing">> >>)>>),
     ConfigOf(<<Alias("@lib", << <<"root", "lib">> >>)>>),
     ConfigOf(<<Alias("@lib", << <<"root", "missing">>, <<"root", "lib">> >>)>>)}

\* The regular files that exist; no package.json is among them.
AllFiles ==
    {<<"root", "lib", "x.ts">>, <<"root", "lib", "x", "index.js">>,
     <<"root", "lib", "y", "index.tsx">>, <<"root", "lodash.js">>}

\* loader.ts 32-38: fs.existsSync(filename) is true of a file and of a
\* directory, that is of every path an existing file lies at or under.
fileExists(files, filename) ==
    \E f \in files : Len(filename) <= Len(f) /\ SubSeq(f, 1, Len(filename)) = filename

PathOf(path) == [t |-> "path", segs |-> path]
Unchanged(sp) == [t |-> "specifier", name |-> FullName(sp)]
WithExtension(path, ext) == [path EXCEPT ![Len(path)] = @ \o ext]

\* configLoaderResult.resultType === 'failed' ? null : configLoaderResult
HasMatchPath(cfg) == cfg.resultType # "failed"

\* tsconfig-paths tries a candidate as it is, then with each extension, then
\* its package.json (none here), then its index file with each extension,
\* asking fileExists; each hit gives the candidate without extension.
CandidateExists(files, exts, path) ==
    \/ fileExists(files, path)
    \/ \E i \in 1..Len(exts) : fileExists(files, WithExtension(path, exts[i]))
    \/ \E i \in 1..Len(exts) : fileExists(files, WithExtension(path \o <<"index">>, exts[i]))

RECURSIVE FirstExisting(_, _, _, _)
FirstExisting(files, exts, dirs, name) ==
    IF dirs = <<>> THEN JUndef
    ELSE IF CandidateExists(files, exts, Head(dirs) \o <<name>>) THEN PathOf(Head(dirs) \o <<name>>)
    ELSE FirstExisting(files, exts, Tail(dirs), name)

\* The target directories of the patterns that match the specifier, in order.
RECURSIVE MatchingTargets(_, _)
MatchingTargets(paths, sp) ==
    IF paths = <<>> THEN <<>>
    ELSE (IF Head(paths).head = sp.head /\ sp.rest # "" THEN Head(paths).targets ELSE <<>>)
         \o MatchingTargets(Tail(paths), sp)

\* The segments of the specifier below the base directory.
SegmentsOf(sp) == IF sp.rest = "" THEN <<sp.head>> ELSE <<sp.head, sp.rest>>

\* createMatchPath(absoluteBaseUrl, paths)(sourcePath, readJson, fileExists,
\* extensions): the first existing candidate of a matching pattern, then of the
\* base directory itself; undefined for a relative specifier or when none exists.
matchPath(cfg, files, exts, sp) ==
    IF sp.rel THEN JUndef
    ELSE LET viaAlias == FirstExisting(files, exts, MatchingTargets(cfg.paths, sp), sp.rest)
         IN IF viaAlias # JUndef THEN viaAlias
            ELSE IF CandidateExists(files, exts, BaseUrl \o SegmentsOf(sp))
                 THEN PathOf(BaseUrl \o SegmentsOf(sp))
            ELSE JUndef

\* babel-plugin-module-resolver's resolvePath under the options of this plugin
\* entry (no root, no alias): a relative specifier as it is, null otherwise.
defaultResolvePath(sp) == IF sp.rel THEN Unchanged(sp) ELSE JNull

\* loader.ts 65-75: the result of matchPath as it is, and the default
\* strategy only when matchPath throws (or is absent).
resolvePath(cfg, files, exts, throws, sp) ==
    IF HasMatchPath(cfg)
    THEN IF throws THEN defaultResolvePath(sp)
         ELSE matchPath(cfg, files, exts, sp)
    ELSE defaultResolvePath(sp)

RvInit == [st |-> "init", cfg |-> ConfigFailed, files |-> {}, exts |-> defaultExtensions,
           sp |-> Spec_(TRUE, ".", "x"), threw |-> FALSE, out |-> JUndef]

\* ------------------------------------------------- the consumer of a fragment
\* The consumer evaluates `module.exports = JSON.parse("...")`: the string
\* literal as JavaScript reads it, then JSON.parse of that string.
Fail == [ok |-> FALSE, val |-> JNull, rest |-> <<>>]
Ok(val, rest) == [ok |-> TRUE, val |-> val, rest |-> rest]

IsDigit(c) == \E d \in 0..9 : DigitChars[d + 1] = c
DigitValue(c) == CHOOSE d \in 0..9 : DigitChars[d + 1] = c
UpperHex == <<"A", "B", "C", "D", "E", "F">>
IsHex(c) == (\E d \in 0..15 : HexChars[d + 1] = c) \/ (\E d \in 1..6 : UpperHex[d] = c)
HexValue(c) == IF \E d \in 0..15 : HexChars[d + 1] = c
               THEN CHOOSE d \in 0..15 : HexChars[d + 1] = c
               ELSE 9 + (CHOOSE d \in 1..6 : UpperHex[d] = c)

\* The number the first k characters of s spell in hexadecimal, or -1.
RECURSIVE HexNumber(_, _, _)
HexNumber(s, k, n) ==
    IF k = 0 THEN n
    ELSE IF s = <<>> \/ ~IsHex(Head(s)) THEN 0 - 1
    ELSE HexNumber(Tail(s), k - 1, 16 * n + HexValue(Head(s)))

\* The code units of a code point: itself, or a surrogate pair above U+FFFF.
UnitsOf(cp) ==
    IF cp < 65536 THEN <<FromCode(cp)>>
    ELSE <<FromCode(55296 + ((cp - 65536) \div 1024)), FromCode(56320 + ((cp - 65536) % 1024))>>

\* \u{X...} of a JavaScript string, s starting after the brace: the hexadecimal
\* digits up to the closing brace, a code point of at most 10FFFF.
RECURSIVE ReadBraced(_, _, _)
ReadBraced(s, n, some) ==
    IF s = <<>> THEN Fail
    ELSE IF Head(s) = "}" THEN (IF some THEN Ok(UnitsOf(n), Tail(s)) ELSE Fail)
    ELSE IF ~IsHex(Head(s)) \/ 16 * n + HexValue(Head(s)) > 1114111 THEN Fail
    ELSE ReadBraced(Tail(s), 16 * n + HexValue(Head(s)), TRUE)

\* What follows a backslash, s starting after it: the code units it stands for
\* and the rest. JSON knows " \ / b f n r t and uXXXX. A JavaScript string
\* knows in addition v, 0, xXX, u{...} and the line continuation (a backslash
\* before a line feed, a carriage return, U+2028 or U+2029), and takes any
\* other character but a digit for itself; an octal escape is refused, as in
\* strict code.
ReadEscape(s, json) ==
    IF s = <<>> THEN Fail
    ELSE LET c == Head(s)
             t == Tail(s)
         IN CASE c \in {"\"", "\\", "/"} -> Ok(<<c>>, t)
              [] c = "b" -> Ok(<<Unit(8)>>, t)
              [] c = "f" -> Ok(<<"\f">>, t)
              [] c = "n" -> Ok(<<"\n">>, t)
              [] c = "r" -> Ok(<<"\r">>, t)
              [] c = "t" -> Ok(<<"\t">>, t)
              [] c = "u" ->
                   IF ~json /\ t # <<>> /\ Head(t) = "{" THEN ReadBraced(Tail(t), 0, FALSE)
                   ELSE IF HexNumber(t, 4, 0) < 0 THEN Fail
                   ELSE Ok(<<FromCode(HexNumber(t, 4, 0))>>, SubSeq(t, 5, Len(t)))
              [] OTHER ->
                   IF json THEN Fail
                   ELSE CASE c = "v" -> Ok(<<Unit(11)>>, t)
                          [] c = "0" -> IF t # <<>> /\ IsDigit(Head(t)) THEN Fail
                                        ELSE Ok(<<Unit(0)>>, t)
                          [] c = "x" -> IF HexNumber(t, 2, 0) < 0 THEN Fail
                                        ELSE Ok(<<FromCode(HexNumber(t, 2, 0))>>, SubSeq(t, 3, Len(t)))
                          [] c = "\n" -> Ok(<<>>, t)
                          [] c = "\r" -> Ok(<<>>, IF t # <<>> /\ Head(t) = "\n" THEN Tail(t) ELSE t)
                          [] c \in {Unit(8232), Unit(8233)} -> Ok(<<>>, t)
                          [] IsDigit(c) -> Fail
                          [] OTHER -> Ok(<<c>>, t)

\* The characters after the opening quote up to the closing one, escapes
\* undone. JSON.parse refuses every raw control character in a string; a
\* JavaScript string literal refuses a raw line feed or carriage return.
RECURSIVE ReadString(_, _, _)
ReadString(s, acc, json) ==
    IF s = <<>> THEN Fail
    ELSE IF Head(s) = "\"" THEN Ok(acc, Tail(s))
    ELSE IF (IF json THEN IsControl(Head(s)) ELSE Head(s) \in {"\n", "\r"}) THEN Fail
    ELSE IF Head(s) = "\\"
         THEN LET Continue(r) == IF r.ok THEN ReadString(r.rest, acc \o r.val, json) ELSE Fail
              IN Continue(ReadEscape(Tail(s), json))
    ELSE ReadString(Tail(s), Append(acc, Head(s)), json)

\* Of two runs of digits without leading zeros, a is the smaller number.
DigitsBefore(a, b) ==
    \/ Len(a) < Len(b)
    \/ /\ Len(a) = Len(b)
       /\ \E i \in 1..Len(a) :
              /\ SubSeq(a, 1, i - 1) = SubSeq(b, 1, i - 1)
              /\ DigitValue(a[i]) < DigitValue(b[i])

\* 2^1074 and 5^1074 in base 10000, least significant digit first. The smallest
\* double above 0 is 2^-1074 = 5^1074 * 10^-1074, and every double below
\* 2^-1022 is a multiple of it.
TwoTo1074 ==
  <<
    4784, 9349, 7410, 7707, 6330, 62, 8646, 2750, 1863, 2532, 3050, 6152, 3414, 5233, 7695, 2358,
    5651, 8100, 6340, 5955, 6491, 3355, 1810, 6986, 4692, 8342, 74, 8562, 4506, 4727, 7678, 3976,
    3412, 3216, 4209, 9077, 4466, 6136, 5663, 4276, 1742, 9215, 8509, 4073, 3999, 7013, 7686, 7934,
    7385, 873, 3898, 1911, 1681, 8643, 7077, 9518, 1244, 1437, 8370, 9603, 6891, 9534, 5679, 339,
    2743, 3580, 6901, 1835, 1421, 9764, 5664, 495, 7307, 1891, 3467, 2495, 1835, 3106, 3307, 225,
    2024 >>

FiveTo1074 ==
  <<
    5625, 4726, 5334, 8265, 1971, 5064, 8682, 8753, 2290, 4565, 6754, 2427, 279, 3709, 7026, 4205,
    4116, 8099, 3664, 9899, 7335, 7389, 5583, 2509, 8167, 6273, 378, 1451, 9110, 5048, 9131, 5119,
    6605, 5125, 1758, 6777, 7972, 4701, 5336, 9699, 3446, 2037, 4778, 5608, 8746, 7247, 7592, 7763,
    4730, 8252, 9049, 9247, 1832, 2773, 8342, 5307, 8097, 6169, 1150, 1060, 8060, 5836, 8934, 2382,
    3609, 4319, 832, 3572, 7533, 6844, 3222, 7033, 7491, 710, 2681, 3790, 2019, 9347, 5264, 4803,
    5013, 6115, 5238, 5935, 7801, 4726, 6901, 1478, 4757, 2452, 5633, 416, 908, 9894, 1931, 9954,
    7099, 129, 2748, 4011, 6544, 545, 3293, 2455, 9149, 2715, 1945, 2493, 3106, 9560, 8703, 7681,
    6686, 5855, 266, 1171, 6559, 2385, 4126, 9807, 3853, 1715, 4003, 6151, 3169, 9727, 4733, 7312,
    8438, 5649, 9153, 8740, 63, 3050, 3072, 9987, 6056, 1863, 6887, 2103, 4898, 1678, 5817, 2784,
    4045, 311, 1319, 3007, 8126, 8187, 107, 4796, 9877, 7963, 5939, 1035, 6567, 926, 1773, 4457,
    4695, 9656, 3797, 5992, 6163, 8363, 5299, 5186, 2087, 7270, 7550, 5006, 5682, 2558, 7644, 4324,
    261, 598, 2365, 2137, 8682, 8792, 7656, 5441, 1246, 4584, 656, 494 >>

\* The n digits of a * m from digit i on, and what is carried into the next
\* digit: a in base 10000, least significant digit first, m a natural number
\* below 2^31. All of a * m is Len(a) + 3 digits from digit 1 with nothing
\* carried in. The digits are computed half by half.
RECURSIVE Product(_, _, _, _, _)
Product(a, m, i, n, carry) ==
    LET At(j) == IF j >= 1 /\ j <= Len(a) THEN a[j] ELSE 0
        One(sum) == [digits |-> <<sum % 10000>>, carry |-> sum \div 10000]
        Both(low, high) == [digits |-> low.digits \o high.digits, carry |-> high.carry]
        Then(low) == Both(low, Product(a, m, i + (n \div 2), n - (n \div 2), low.carry))
    IN IF n = 0 THEN [digits |-> <<>>, carry |-> carry]
       ELSE IF n = 1
            THEN One(At(i) * (m % 10000) + At(i - 1) * ((m \div 10000) % 10000)
                     + At(i - 2) * (m \div 100000000) + carry)
       ELSE Then(Product(a, m, i, n \div 2, carry))

\* The number made of the n decimal digits of a from the digit of 10^t upwards.
RECURSIVE DigitsFrom(_, _, _)
DigitsFrom(a, t, n) ==
    IF n = 0 \/ t \div 4 >= Len(a) THEN 0
    ELSE ((a[t \div 4 + 1] \div <<1, 10, 100, 1000>>[(t % 4) + 1]) % 10) + 10 * DigitsFrom(a, t + 1, n - 1)

\* The k for which k * 2^-1074 is the double nearest to m * 10^e, for a natural
\* number m below 2^31 and e of at most -314: m * 2^1074 / 10^-e, rounded to the
\* nearest integer, and to the even one of two that are equally near.
NearestSubnormal(m, e) ==
    LET Rounded(k, next, more) ==
            IF next > 5 \/ (next = 5 /\ (more \/ k % 2 = 1)) THEN k + 1 ELSE k
        Split(p, t) ==
            IF t > 4 * Len(p) THEN 0
            ELSE Rounded(DigitsFrom(p, t, 10), DigitsFrom(p, t - 1, 1),
                         \E i \in 0..(t - 2) : DigitsFrom(p, i, 1) # 0)
    IN Split(Product(TwoTo1074, m, 1, Len(TwoTo1074) + 3, 0).digits, 0 - e)

\* The shortest decimal that reads as the double k * 2^-1074, k from 1 to
\* 2^31 / 5, looked for among the multiples of 10^e and then of the smaller
\* powers of ten; of two of a length, the one nearer to the double. A multiple
\* of 10^e on either side of the double reads as it only if the nearer one
\* does, and the double is never half way between two (5^1074 is odd).
RECURSIVE ShortestSubnormal(_, _)
ShortestSubnormal(k, e) ==
    LET Reads(s) == s > 0 /\ NearestSubnormal(s, e) = k
        Pick(nearer, other) ==
            IF Reads(nearer) THEN JDec(nearer, e)
            ELSE IF Reads(other) THEN JDec(other, e)
            ELSE ShortestSubnormal(k, e - 1)
        Around(below, up) == IF up THEN Pick(below + 1, below) ELSE Pick(below, below + 1)
        Of(x) == Around(DigitsFrom(x, 1074 + e, 10), DigitsFrom(x, 1073 + e, 1) >= 5)
    IN Of(Product(FiveTo1074, k, 1, Len(FiveTo1074) + 3, 0).digits)

\* The double nearest to m * 10^e with the sign, m a natural number below 2^31,
\* as the shortest decimal that reads as it. Up to fifteen digits a decimal is
\* that shortest decimal itself, but beyond the ends of the doubles: from
\* 2^1024 - 2^970 = 1.797693134862315807...e308 on it reads as Infinity, and
\* below 10^-323 it reads as a multiple of 2^-1074 = 4.94...e-324, which
\* is 0 up to 2^-1075.
ToDouble(negative, m, e) ==
    LET largest == <<"1", "7", "9", "7", "6", "9", "3", "1", "3", "4">>
        Signed(v) == IF ~negative THEN v ELSE IF v.n = 0 THEN NegZero ELSE JDec(0 - v.n, v.e)
        Multiple(k) == IF k = 0 THEN JNum(0) ELSE ShortestSubnormal(k, 0 - 314)
        Sized(v, d) ==
            IF v.n = 0 THEN Signed(v)
            ELSE IF Len(d) + v.e > 309
                    \/ (Len(d) + v.e = 309 /\ DigitsBefore(largest, d \o Zeros(10 - Len(d))))
                 THEN Infinity(negative)
            ELSE IF v.e >= 0 - 323 THEN Signed(v)
            ELSE Signed(Multiple(NearestSubnormal(v.n, v.e)))
        Of(v) == Sized(v, Digits(v.n))
    IN Of(JDec(m, e))

\* The longest run of digits s starts with, and the rest.
RECURSIVE ReadDigits(_, _)
ReadDigits(s, acc) ==
    IF s # <<>> /\ IsDigit(Head(s)) THEN ReadDigits(Tail(s), Append(acc, Head(s)))
    ELSE Ok(acc, s)

RECURSIVE DigitsValue(_, _)
DigitsValue(d, n) == IF d = <<>> THEN n ELSE DigitsValue(Tail(d), 10 * n + DigitValue(Head(d)))

\* The JSON number grammar: -? (0 | [1-9][0-9]*) (. [0-9]+)? ([eE] [+-]? [0-9]+)?
\* A zero with a minus sign ("-0", "-0.0", "-0e5") is the number -0. The
\* number read is the double nearest to the decimal.
ReadNumber(s) ==
    LET neg == s # <<>> /\ Head(s) = "-"
        ip == ReadDigits(IF neg THEN Tail(s) ELSE s, <<>>)
        hasFrac == ip.rest # <<>> /\ Head(ip.rest) = "."
        fp == IF hasFrac THEN ReadDigits(Tail(ip.rest), <<>>) ELSE Ok(<<>>, ip.rest)
        hasExp == fp.rest # <<>> /\ Head(fp.rest) \in {"e", "E"}
        signed == hasExp /\ Len(fp.rest) >= 2 /\ fp.rest[2] \in {"+", "-"}
        ep == IF hasExp THEN ReadDigits(SubSeq(fp.rest, IF signed THEN 3 ELSE 2, Len(fp.rest)), <<>>)
              ELSE Ok(<<"0">>, fp.rest)
        ex == IF signed /\ fp.rest[2] = "-" THEN 0 - DigitsValue(ep.val, 0) ELSE DigitsValue(ep.val, 0)
        m == DigitsValue(ip.val \o fp.val, 0)
    IN IF ip.val = <<>> \/ (Len(ip.val) > 1 /\ Head(ip.val) = "0") THEN Fail
       ELSE IF hasFrac /\ fp.val = <<>> THEN Fail
       ELSE IF hasExp /\ ep.val = <<>> THEN Fail
       ELSE Ok(ToDouble(neg, m, ex - Len(fp.val)), ep.rest)

StartsWith(s, word) == Len(s) >= Len(word) /\ SubSeq(s, 1, Len(word)) = word
After(s, word) == SubSeq(s, Len(word) + 1, Len(s))

\* JSON whitespace: space, tab, line feed, carriage return.
RECURSIVE SkipWs(_)
SkipWs(s) == IF s # <<>> /\ Head(s) \in {" ", "\t", "\n", "\r"} THEN SkipWs(Tail(s)) ELSE s

\* A key that is an array index, the canonical text of an integer from 0 to
\* 2^32 - 2 ("0", "17", "4294967294"), is enumerated before the other keys, in
\* ascending order.
IsIndexKey(k) ==
    LET last == <<"4", "2", "9", "4", "9", "6", "7", "2", "9", "4">>
    IN /\ k # <<>>
       /\ \A i \in 1..Len(k) : IsDigit(k[i])
       /\ (Len(k) = 1 \/ k[1] # "0")
       /\ (k = last \/ DigitsBefore(k, last))

ComesBefore(k1, k2) ==
    IsIndexKey(k1) /\ (~IsIndexKey(k2) \/ DigitsBefore(k1, k2))

\* obj[k] = v: a key that is there keeps its place and takes the value; a new
\* key goes after the keys that are enumerated before it.
RECURSIVE PutProp(_, _, _)
PutProp(props, k, v) ==
    IF props = <<>> THEN << <<k, v>> >>
    ELSE IF Head(props)[1] = k THEN << <<k, v>> >> \o Tail(props)
    ELSE IF ComesBefore(k, Head(props)[1]) /\ \A i \in 1..Len(props) : props[i][1] # k
         THEN << <<k, v>> >> \o props
    ELSE <<Head(props)>> \o PutProp(Tail(props), k, v)

\* One JSON value, with the whitespace before and after it.
RECURSIVE ParseValue(_), ParseItems(_, _), ParseProps(_, _)
ParseValue(text) ==
    LET Trimmed(r) == IF r.ok THEN Ok(r.val, SkipWs(r.rest)) ELSE Fail
        StringValue(q) == IF q.ok THEN Ok(JStr(q.val), q.rest) ELSE Fail
        Value(s) ==
             IF s = <<>> THEN Fail
             ELSE IF StartsWith(s, NullText) THEN Ok(JNull, After(s, NullText))
             ELSE IF StartsWith(s, <<"t", "r", "u", "e">>)
                  THEN Ok(JBool(TRUE), After(s, <<"t", "r", "u", "e">>))
             ELSE IF StartsWith(s, <<"f", "a", "l", "s", "e">>)
                  THEN Ok(JBool(FALSE), After(s, <<"f", "a", "l", "s", "e">>))
             ELSE IF Head(s) = "-" \/ IsDigit(Head(s)) THEN ReadNumber(s)
             ELSE IF Head(s) = "\""
                  THEN StringValue(ReadString(Tail(s), <<>>, TRUE))
             ELSE IF Head(s) = "["
                  THEN IF SkipWs(Tail(s)) # <<>> /\ Head(SkipWs(Tail(s))) = "]"
                       THEN Ok(JArr(<<>>), Tail(SkipWs(Tail(s))))
                       ELSE ParseItems(Tail(s), <<>>)
             ELSE IF Head(s) = "{"
                  THEN IF SkipWs(Tail(s)) # <<>> /\ Head(SkipWs(Tail(s))) = "}"
                       THEN Ok(JObj(<<>>), Tail(SkipWs(Tail(s))))
                       ELSE ParseProps(Tail(s), <<>>)
             ELSE Fail
    IN Trimmed(Value(SkipWs(text)))

\* value ("," value)* "]"
ParseItems(s, acc) ==
    LET Item(r) ==
            IF ~r.ok \/ r.rest = <<>> THEN Fail
            ELSE IF Head(r.rest) = "]" THEN Ok(JArr(Append(acc, r.val)), Tail(r.rest))
            ELSE IF Head(r.rest) = "," THEN ParseItems(Tail(r.rest), Append(acc, r.val))
            ELSE Fail
    IN Item(ParseValue(s))

\* string ":" value ("," string ":" value)* "}"
ParseProps(text, acc) ==
    LET Put(key, r) ==
            IF ~r.ok \/ r.rest = <<>> THEN Fail
            ELSE IF Head(r.rest) = "}" THEN Ok(JObj(PutProp(acc, key, r.val)), Tail(r.rest))
            ELSE IF Head(r.rest) = "," THEN ParseProps(Tail(r.rest), PutProp(acc, key, r.val))
            ELSE Fail
        AfterColon(key, s) ==
            IF s = <<>> \/ Head(s) # ":" THEN Fail ELSE Put(key, ParseValue(Tail(s)))
        AfterKey(k) == IF ~k.ok THEN Fail ELSE AfterColon(k.val, SkipWs(k.rest))
        Prop(s) ==
            IF s = <<>> \/ Head(s) # "\"" THEN Fail
            ELSE AfterKey(ReadString(Tail(s), <<>>, TRUE))
    IN Prop(SkipWs(text))

\* JSON.parse(text): one value and nothing after it.
JSONParse(text) ==
    LET Whole(r) == IF r.ok /\ r.rest = <<>> THEN Ok(r.val, <<>>) ELSE Fail
    IN Whole(ParseValue(text))

\* What module.exports is after the consumer ran the fragment: the argument is
\* a string literal, or the word undefined, which JSON.parse reads as the text
\* "undefined" and refuses.
Consume(fragment) ==
    IF Len(fragment) < 3 \/ Head(fragment) # FragmentHead \/ fragment[Len(fragment)] # FragmentTail
    THEN Fail
    ELSE LET Parsed(lit) == IF lit.ok /\ lit.rest = <<>> THEN JSONParse(lit.val) ELSE Fail
             Argument(arg) ==
                 IF arg = UndefinedWord THEN JSONParse(UndefinedWord)
                 ELSE IF Head(arg) # "\"" THEN Fail
                 ELSE Parsed(ReadString(Tail(arg), <<>>, FALSE))
         IN Argument(SubSeq(fragment, 2, Len(fragment) - 1))

\* The values the consumer's round trip is checked on: strings over characters
\* that need escaping, numbers of several digits and signs, and records and
\* sequences nested two deep.
MaxStrLen == 2
MaxItems == 2

Chars == {"a", "\"", "\\", "\n", "\t", Unit(8), Unit(31), Unit(55296)}
RECURSIVE StringsOfLen(_)
StringsOfLen(n) ==
    IF n = 0 THEN {<<>>}
    ELSE {Append(s, c) : s \in StringsOfLen(n - 1), c \in Chars}
Strings == UNION {StringsOfLen(n) : n \in 0..MaxStrLen}

Numbers == {JNum(0 - 12), JNum(0), NegZero, JNum(7), JNum(105), JNum(1200),
            JDec(15, 0 - 1), JDec(0 - 5, 0 - 7), JDec(25, 20), JDec(1, 21),
            JDec(5, 0 - 324), JDec(0 - 12347, 0 - 324), JDec(1797693134, 299)}
Atoms == {JNull, JBool(TRUE), JBool(FALSE)} \cup Numbers
         \cup {JStr(s) : s \in Strings}

Leaves == {JNull, NegZero, JNum(0 - 12), JDec(15, 0 - 1), JStr(<<"\\", "\"">>),
           JStr(<<Unit(55296), "\t">>)}
Keys == {<<"a">>, <<"\"", "b">>, <<>>, <<"2">>,
         <<"4", "2", "9", "4", "9", "6", "7", "2", "9", "4">>}

RECURSIVE TuplesOver(_, _)
TuplesOver(S, n) ==
    IF n = 0 THEN {<<>>}
    ELSE {Append(t, x) : t \in TuplesOver(S, n - 1), x \in S}
TuplesUpTo(S, n) == UNION {TuplesOver(S, k) : k \in 0..n}

DistinctKeys(props) == \A i, j \in 1..Len(props) : i # j => props[i][1] # props[j][1]
\* An object enumerates its index keys first, in ascending order, whatever the
\* order they were written in: no object has its properties in another order.
InEnumerationOrder(props) ==
    \A i, j \in 1..Len(props) : i < j => ~ComesBefore(props[j][1], props[i][1])
ArraysOver(S) == {JArr(t) : t \in TuplesUpTo(S, MaxItems)}
RecordsOver(S) ==
    {JObj(t) : t \in {u \in TuplesUpTo(Keys \X S, MaxItems) :
                          DistinctKeys(u) /\ InEnumerationOrder(u)}}

Level1 == ArraysOver(Leaves) \cup RecordsOver(Leaves)
Inner == {JArr(<<>>), JObj(<<>>), JArr(<<JStr(<<"\"">>), JNum(7)>>),
          JObj(<< <<<<"a">>, JStr(<<"\\">>)>> >>)}
Level2 == ArraysOver(Inner \cup {JNull}) \cup RecordsOver(Inner \cup {JNum(105)})

CodecValues == Atoms \cup Level1 \cup Level2 \cup ResolvedValues
               \cup {JArr(<<JFn>>), JObj(<< <<<<"a">>, JUndef>> >>), JUndef}

CvInit == [st |-> "init", v |-> JNull, fragment |-> <<>>, out |-> Fail]

\* ----------------------------------------------------------------- the state
Unloaded == [kind |-> "unloaded"]
NoComp == [st |-> "none"]
Pending == [st |-> "pending"]
Fulfilled(v) == [st |-> "fulfilled", val |-> v]
RejectedWith(x) == [st |-> "rejected", err |-> x]

NoCaught == ThrownValue("none", FALSE, FALSE, FALSE, JUndef, "")
NotDone == [kind |-> "none"]
Normal(v) == [kind |-> "normal", val |-> v]
Throw(err) == [kind |-> "throw", err |-> err]

Unsettled == [kind |-> "pending"]
ResolvedWith(fragment) == [kind |-> "resolved", fragment |-> fragment]
RejectedBy(err) == [kind |-> "rejected", err |-> err]

Settled == {"resolved", "rejected"}
InFlight(e) == pc[e] \notin ({"idle"} \cup Settled)

\* The loader's promise chain: the callback's invocations so far, in order,
\* and whether the .then handler threw (which the chained .catch then handles).
NoCalls == [seq |-> <<>>, thenThrew |-> FALSE, over |-> FALSE]

NeverCached(entry) == FALSE
\* require(resource) answers from require.cache when the module is in it.
InRequireCache(entry) == entry.kind # "unloaded"

Init ==
    /\ hook = NoHook
    /\ cur = NoEval
    /\ cache = [r \in Resources |-> Unloaded]
    /\ comp = [r \in Resources |-> NoComp]
    /\ pc = [e \in Evals |-> "idle"]
    /\ res = [e \in Evals |-> "/a.preval.ts"]
    /\ mod = [e \in Evals |-> Unloaded]
    /\ caught = [e \in Evals |-> NoCaught]
    /\ done = [e \in Evals |-> NotDone]
    /\ result = [e \in Evals |-> Unsettled]
    /\ registers = [e \in Evals |-> 0]
    /\ reverts = [e \in Evals |-> 0]
    /\ logged = [e \in Evals |-> <<>>]
    /\ calls = [e \in Evals |-> NoCalls]
    /\ overlapped = FALSE
    /\ rv = RvInit
    /\ cv = CvInit

\* loader.ts 45-100 lie outside the try statement: an exception there leaves
\* _prevalLoader as it is, before any await, so the promise is rejected with
\* it at once. These are the destructuring of an options that is undefined or
\* null (45), loadConfig() (47) and register(...) (79). What @babel/register
\* leaves installed when it throws is not in the source: the registration counts
\* as not made.
StartFailure(at, cls, text) == [at |-> at, err |-> [cls |-> cls, msg |-> <<text>>]]
StartFailures ==
    {StartFailure("options", "TypeError", "Cannot read properties of undefined (reading 'extensions')"),
     StartFailure("loadConfig", "Error", "loadConfig failed"),
     StartFailure("register", "Error", "register failed")}

\* loader.ts 45-100: the options, the alias configuration, and register(...).
\* Evaluations are numbered in the order the host invokes them.
Register(e, r) ==
    /\ pc[e] = "idle"
    /\ cur = NoEval
    /\ \A o \in Evals : o < e => pc[o] # "idle"
    /\ res' = [res EXCEPT ![e] = r]
    /\ overlapped' = (overlapped \/ \E o \in Evals : InFlight(o))
    /\ \/ /\ hook' = register(hook, e)
          /\ registers' = [registers EXCEPT ![e] = @ + 1]
          /\ pc' = [pc EXCEPT ![e] = "load"]
          /\ cur' = e
          /\ UNCHANGED result
       \/ \E f \in StartFailures :
             /\ registers' = [registers EXCEPT ![e] = IF f.at = "register" THEN @ + 1 ELSE @]
             /\ result' = [result EXCEPT ![e] = RejectedBy(f.err)]
             /\ pc' = [pc EXCEPT ![e] = "rejected"]
             /\ UNCHANGED <<hook, cur>>
    /\ UNCHANGED <<cache, comp, mod, caught, done, reverts, logged, calls>>
    /\ UNCHANGED auxVars

\* loader.ts 104-109: requireFromString runs require('next') and
\* require(resource). A module in require.cache is not executed again; one that
\* throws while loading is not cached.
RequireFromString(e) ==
    /\ pc[e] = "load"
    /\ cur = e
    /\ IF InRequireCache(cache[res[e]])
       THEN /\ mod' = [mod EXCEPT ![e] = cache[res[e]]]
            /\ pc' = [pc EXCEPT ![e] = "check"]
            /\ UNCHANGED <<cache, comp, caught>>
       ELSE \/ \E x \in Thrown :
                 /\ caught' = [caught EXCEPT ![e] = x]
                 /\ pc' = [pc EXCEPT ![e] = "catch"]
                 /\ UNCHANGED <<cache, comp, mod>>
            \/ \E d \in DefaultExports :
                 /\ cache' = [cache EXCEPT ![res[e]] = d]
                 /\ comp' = [comp EXCEPT ![res[e]] = IF d.kind = "promise" THEN Pending ELSE NoComp]
                 /\ mod' = [mod EXCEPT ![e] = d]
                 /\ pc' = [pc EXCEPT ![e] = "check"]
                 /\ UNCHANGED caught
    /\ UNCHANGED <<hook, cur, res, done, result, registers, reverts, logged>>
    /\ UNCHANGED auxVars
    /\ UNCHANGED <<calls, overlapped>>

\* loader.ts 111-117: the default-export check, then `await mod.default`, which
\* gives up the thread whatever the default export is. Reading mod.default
\* throws a TypeError when module.exports is null or undefined.
CheckDefault(e) ==
    /\ pc[e] = "check"
    /\ cur = e
    /\ IF ReadDefaultThrows(mod[e])
       THEN /\ caught' = [caught EXCEPT ![e] = CannotReadDefault(mod[e].what)]
            /\ pc' = [pc EXCEPT ![e] = "catch"]
            /\ UNCHANGED cur
       ELSE IF DefaultMissing(mod[e])
       THEN /\ caught' = [caught EXCEPT ![e] = NoDefaultError]
            /\ pc' = [pc EXCEPT ![e] = "catch"]
            /\ UNCHANGED cur
       ELSE /\ pc' = [pc EXCEPT ![e] = "await"]
            /\ cur' = NoEval
            /\ UNCHANGED caught
    /\ UNCHANGED <<hook, cache, comp, res, mod, done, result, registers, reverts, logged>>
    /\ UNCHANGED auxVars
    /\ UNCHANGED <<calls, overlapped>>

\* The user's computation settles (outside the loader).
Settle(r) ==
    /\ comp[r] = Pending
    /\ cur = NoEval
    /\ \/ \E v \in ResolvedValues : comp' = [comp EXCEPT ![r] = Fulfilled(v)]
       \/ \E x \in Thrown : comp' = [comp EXCEPT ![r] = RejectedWith(x)]
    /\ UNCHANGED <<hook, cur, cache, pc, res, mod, caught, done, result, registers, reverts, logged>>
    /\ UNCHANGED auxVars
    /\ UNCHANGED <<calls, overlapped>>

\* loader.ts 117: the await resumes with the value, or throws the rejection
\* into the catch block.
AwaitDefault(e) ==
    /\ pc[e] = "await"
    /\ cur = NoEval
    /\ \/ /\ mod[e].kind # "promise"
          /\ done' = [done EXCEPT ![e] = Normal(AwaitedValue(mod[e]))]
          /\ pc' = [pc EXCEPT ![e] = "finally"]
          /\ UNCHANGED caught
       \/ /\ mod[e].kind = "promise"
          /\ comp[res[e]].st = "fulfilled"
          /\ done' = [done EXCEPT ![e] = Normal(comp[res[e]].val)]
          /\ pc' = [pc EXCEPT ![e] = "finally"]
          /\ UNCHANGED caught
       \/ /\ mod[e].kind = "promise"
          /\ comp[res[e]].st = "rejected"
          /\ caught' = [caught EXCEPT ![e] = comp[res[e]].err]
          /\ pc' = [pc EXCEPT ![e] = "catch"]
          /\ UNCHANGED done
    /\ cur' = e
    /\ UNCHANGED <<hook, cache, comp, res, mod, result, registers, reverts, logged>>
    /\ UNCHANGED auxVars
    /\ UNCHANGED <<calls, overlapped>>

\* loader.ts 118-126: log the stack when there is one, then throw.
CatchBlock(e) ==
    /\ pc[e] = "catch"
    /\ cur = e
    /\ logged' = [logged EXCEPT ![e] =
                    IF HasStackToLog(caught[e]) THEN Append(@, LogLine(caught[e])) ELSE @]
    /\ done' = [done EXCEPT ![e] = Throw(CatchThrows(res[e], caught[e]))]
    /\ pc' = [pc EXCEPT ![e] = "finally"]
    /\ UNCHANGED <<hook, cur, cache, comp, res, mod, caught, result, registers, reverts>>
    /\ UNCHANGED auxVars
    /\ UNCHANGED <<calls, overlapped>>

\* loader.ts 127-130: revert(), and the inner async function settles; the
\* outer await continues in a later microtask.
FinallyBlock(e) ==
    /\ pc[e] = "finally"
    /\ cur = e
    /\ IF FinallyReverts(done[e])
       THEN /\ hook' = revert(hook)
            /\ reverts' = [reverts EXCEPT ![e] = @ + 1]
       ELSE UNCHANGED <<hook, reverts>>
    /\ pc' = [pc EXCEPT ![e] = "outer"]
    /\ cur' = NoEval
    /\ UNCHANGED <<cache, comp, res, mod, caught, done, result, registers, logged>>
    /\ UNCHANGED auxVars
    /\ UNCHANGED <<calls, overlapped>>

\* loader.ts 102: `const data = await (...)()` continues, or rethrows: the
\* promise of _prevalLoader rejects with the very error the inner function threw.
Resume(e) ==
    /\ pc[e] = "outer"
    /\ cur = NoEval
    /\ IF done[e].kind = "throw"
       THEN /\ result' = [result EXCEPT ![e] = RejectedBy(done[e].err)]
            /\ pc' = [pc EXCEPT ![e] = "rejected"]
            /\ UNCHANGED cur
       ELSE /\ pc' = [pc EXCEPT ![e] = "validate"]
            /\ cur' = e
            /\ UNCHANGED result
    /\ UNCHANGED <<hook, cache, comp, res, mod, caught, done, registers, reverts, logged>>
    /\ UNCHANGED auxVars
    /\ UNCHANGED <<calls, overlapped>>

\* loader.ts 132: isSerializable(resource, data) throws outside any try block.
Validate(e) ==
    /\ pc[e] = "validate"
    /\ cur = e
    /\ LET v == isSerializable(res[e], done[e].val)
       IN IF v.bad
          THEN /\ result' = [result EXCEPT ![e] = RejectedBy(SerializationErrorOf(res[e], v.path))]
               /\ pc' = [pc EXCEPT ![e] = "rejected"]
               /\ cur' = NoEval
          ELSE /\ pc' = [pc EXCEPT ![e] = "encode"]
               /\ UNCHANGED <<result, cur>>
    /\ UNCHANGED <<hook, cache, comp, res, mod, caught, done, registers, reverts, logged>>
    /\ UNCHANGED auxVars
    /\ UNCHANGED <<calls, overlapped>>

\* loader.ts 139: the fragment is returned.
Return(e) ==
    /\ pc[e] = "encode"
    /\ cur = e
    /\ result' = [result EXCEPT ![e] = ResolvedWith(Encode(done[e].val))]
    /\ pc' = [pc EXCEPT ![e] = "resolved"]
    /\ cur' = NoEval
    /\ UNCHANGED <<hook, cache, comp, res, mod, caught, done, registers, reverts, logged>>
    /\ UNCHANGED auxVars
    /\ UNCHANGED <<calls, overlapped>>

\* loader.ts 157-159: .then((result) => { callback(null, result); }). The
\* callback is webpack's and may throw; the promise .then returns is then
\* rejected with what it threw.
ThenHandler(e, throws) ==
    /\ pc[e] = "resolved"
    /\ cur = NoEval
    /\ calls[e].seq = <<>>
    /\ calls' = [calls EXCEPT ![e] = [seq |-> <<"result">>, thenThrew |-> throws, over |-> ~throws]]
    /\ UNCHANGED <<hook, cur, cache, comp, pc, res, mod, caught, done, result, registers, reverts, logged>>
    /\ UNCHANGED overlapped
    /\ UNCHANGED auxVars

\* loader.ts 160-162: .catch((e) => { callback(e); }) is chained on the promise
\* of .then: it handles the rejection of _prevalLoader and also an error thrown
\* by the .then handler.
CatchHandler(e) ==
    /\ cur = NoEval
    /\ ~calls[e].over
    /\ \/ pc[e] = "rejected" /\ calls[e].seq = <<>>
       \/ pc[e] = "resolved" /\ calls[e].thenThrew
    /\ calls' = [calls EXCEPT ![e] = [seq |-> Append(@.seq, "error"), thenThrew |-> @.thenThrew,
                                      over |-> TRUE]]
    /\ UNCHANGED <<hook, cur, cache, comp, pc, res, mod, caught, done, result, registers, reverts, logged>>
    /\ UNCHANGED overlapped
    /\ UNCHANGED auxVars

Step(e) ==
    \/ RequireFromString(e)
    \/ CheckDefault(e)
    \/ AwaitDefault(e)
    \/ CatchBlock(e)
    \/ FinallyBlock(e)
    \/ Resume(e)
    \/ Validate(e)
    \/ Return(e)

\* The host may invoke the loader again while earlier evaluations are awaiting.
Next ==
    \/ \E e \in Evals, r \in Resources : Register(e, r)
    \/ \E e \in Evals : Step(e)
    \/ \E r \in Resources : Settle(r)

Spec == Init /\ [][Next]_vars

\* loader.ts 142-163: the loader hands the outcome of each evaluation to the
\* host's completion callback through its promise chain.
Callback(e) ==
    \/ \E throws \in BOOLEAN : ThenHandler(e, throws)
    \/ CatchHandler(e)

NextLoader ==
    \/ Next
    \/ \E e \in Evals : Callback(e)

SpecLoader == Init /\ [][NextLoader]_vars

\* ------------------------------------------- the alias resolver's steps
\* loader.ts 45-57: the extensions option and the alias configuration of the
\* project, over the files that exist.
LoadConfig(cfg, files, exts) ==
    /\ rv.st = "init"
    /\ rv' = [rv EXCEPT !.st = "ready", !.cfg = cfg, !.files = files, !.exts = exts]
    /\ UNCHANGED <<evalVars, cv>>

\* loader.ts 59-77: babel calls resolvePath for an import of a file it
\* compiles; the plugin entry exists only with a loaded configuration.
ResolvePath(sp, throws) ==
    /\ rv.st \in {"ready", "resolved"}
    /\ HasMatchPath(rv.cfg)
    /\ rv' = [rv EXCEPT !.st = "resolved", !.sp = sp, !.threw = throws,
                        !.out = resolvePath(rv.cfg, rv.files, rv.exts, throws, sp)]
    /\ UNCHANGED <<evalVars, cv>>

NextResolve ==
    \/ \E cfg \in Configs, files \in SUBSET AllFiles, exts \in ExtensionOptions :
           LoadConfig(cfg, files, exts)
    \/ \E sp \in Specifiers, throws \in BOOLEAN : ResolvePath(sp, throws)

SpecResolve == Init /\ [][NextResolve]_vars

\* The alias resolution of the last call failed: matchPath threw, or found
\* no existing candidate of any matching pattern.
AliasFailed ==
    /\ rv.st = "resolved"
    /\ \/ rv.threw
       \/ matchPath(rv.cfg, rv.files, rv.exts, rv.sp) = JUndef

\* C6 (as claimed): on every alias resolution failure resolve returns what
\* the default resolution strategy returns for the specifier.
C6_AliasFallback ==
    AliasFailed => rv.out = defaultResolvePath(rv.sp)

\* ---------------------------------------------------- the consumer's steps
\* loader.ts 132-139 on a resolved value: the validator, then the fragment.
Emit(v) ==
    /\ cv.st = "init"
    /\ ~isSerializable("/a.preval.ts", v).bad
    /\ cv' = [cv EXCEPT !.st = "emitted", !.v = v, !.fragment = Encode(v)]
    /\ UNCHANGED <<evalVars, rv>>

\* The validator refuses the value: no fragment.
Refuse(v) ==
    /\ cv.st = "init"
    /\ isSerializable("/a.preval.ts", v).bad
    /\ cv' = [cv EXCEPT !.st = "refused", !.v = v]
    /\ UNCHANGED <<evalVars, rv>>

\* The bundler evaluates the fragment as the module's source.
Import ==
    /\ cv.st = "emitted"
    /\ cv' = [cv EXCEPT !.st = "imported", !.out = Consume(cv.fragment)]
    /\ UNCHANGED <<evalVars, rv>>

NextCodec ==
    \/ \E v \in CodecValues : Emit(v)
    \/ \E v \in CodecValues : Refuse(v)
    \/ Import

SpecCodec == Init /\ [][NextCodec]_vars

\* ------------------------------------------------------------------- claims
NoneInFlight == \A o \in Evals : ~InFlight(o)

\* C1: once a call to run has settled, resolved or rejected, the registration
\* it made is no longer active, and whenever no evaluation is in flight the
\* process-wide registration is inactive.
C1_Isolation ==
    \A e \in Evals :
        pc[e] \in Settled => /\ hook # e
                             /\ (NoneInFlight => hook = NoHook)

C1_Witness ==
    /\ pc[1] = "rejected"
    /\ pc[2] = "resolved"
    /\ hook = NoHook

\* C2 (as claimed): on every exit path of run the teardown (revert) has run
\* exactly once: it has run once by the time the inner function is left, and
\* never twice.
C2_TeardownOnce ==
    \A e \in Evals :
        /\ reverts[e] <= 1
        /\ (pc[e] \in {"outer", "validate", "encode", "resolved", "rejected"} => reverts[e] = 1)
        /\ (pc[e] \in {"idle", "load", "check", "await", "catch", "finally"} => reverts[e] = 0)

\* run was left before its try statement: by the options, by loadConfig or by
\* register.
FailedAtStart(e) == pc[e] = "rejected" /\ done[e] = NotDone

\* C2 (amended): on every exit path of a run that entered its session the
\* teardown has run exactly once, by the time the inner function is left, and
\* never twice; a run that fails before its session has run no teardown.
C2_TeardownOncePerSession ==
    \A e \in Evals :
        /\ reverts[e] <= 1
        /\ (pc[e] \in {"outer", "validate", "encode", "resolved"} => reverts[e] = 1)
        /\ (pc[e] = "rejected" => reverts[e] = (IF FailedAtStart(e) THEN 0 ELSE 1))
        /\ (pc[e] \in {"idle", "load", "check", "await", "catch", "finally"} => reverts[e] = 0)

C2_Witness ==
    /\ pc[1] = "rejected" /\ result[1].err.cls = "SerializationError" /\ reverts[1] = 1
    /\ pc[2] = "rejected" /\ FailedAtStart(2) /\ reverts[2] = 0

\* C3 (as claimed): every failure run rejects with is a PrevalError.
C3_AllFailuresArePrevalError ==
    \A e \in Evals : pc[e] = "rejected" => result[e].err.cls = "PrevalError"

\* The evaluation's awaited computation rejected and run has settled.
ComputationRejected(e) ==
    /\ pc[e] = "rejected"
    /\ mod[e].kind = "promise"
    /\ comp[res[e]].st = "rejected"
    /\ caught[e] = comp[res[e]].err

\* C4 (as claimed): whatever the computation rejects with, run fails with a
\* PrevalError whose message embeds the resource path and the rejection's
\* description, and a diagnostic line has been written.
C4_RejectionReportedAndLogged ==
    \A e \in Evals :
        ComputationRejected(e) =>
            /\ result[e].err.cls = "PrevalError"
            /\ result[e].err.msg[2] = res[e]
            /\ result[e].err.msg[4] = caught[e].str
            /\ Len(logged[e]) >= 1
            /\ logged[e][1][1] = LogTag

\* The module loaded and has no default export.
HasNoDefault(d) == d.kind \in {"absent", "noexports"}

\* C5 (as claimed): a module that loads without a default export makes run
\* fail with a PrevalError whose message mentions the missing default export.
C5_MissingDefaultReported ==
    \A e \in Evals :
        (pc[e] \in Settled /\ HasNoDefault(mod[e])) =>
            /\ pc[e] = "rejected"
            /\ result[e].err.cls = "PrevalError"
            /\ result[e].err.msg[2] = res[e]
            /\ result[e].err.msg[4] = "Error: " \o NoDefaultText

\* C9 (as claimed): run returns a fragment only for a module whose default
\* export is a promise.
C9_OnlyPromisesAccepted ==
    \A e \in Evals : pc[e] = "resolved" => mod[e].kind = "promise"

\* C9 (amended): run returns a fragment only for a module whose default export
\* is truthy; it awaits a default export that is no promise as it is, and the
\* fragment encodes that value, or the value the promise fulfilled with.
C9_TruthyDefaultAccepted ==
    \A e \in Evals :
        pc[e] = "resolved" =>
            \/ /\ mod[e].kind = "promise"
               /\ comp[res[e]].st = "fulfilled"
               /\ result[e].fragment = Encode(comp[res[e]].val)
            \/ /\ mod[e].kind = "value"
               /\ TruthyValue(mod[e].val)
               /\ result[e].fragment = Encode(mod[e].val)

C9_Witness ==
    \E e \in Evals : pc[e] = "resolved" /\ mod[e] = PlainValue(DataOk)

\* C10: every executor step of an evaluation (the load, the default-export
\* check, the await, the catch block) runs after this evaluation's register
\* and before its revert; as long as no evaluation was started while another
\* was in flight, its registration is the active one at every such step.
C10_ExecutorInsideSession ==
    \A e \in Evals :
        pc[e] \in {"load", "check", "await", "catch", "finally"} =>
            /\ registers[e] = 1
            /\ reverts[e] = 0
            /\ (~overlapped => hook = e)

C10_Witness ==
    /\ ~overlapped
    /\ pc[1] \in Settled /\ ~FailedAtStart(1)
    /\ pc[2] = "await"
    /\ hook = 2

\* The fragment for { a: 1, b: [1, 2] }: the keys in the order encountered.
DataOkFragment ==
    <<FragmentHead, "\"", "{",
      "\\", "\"", "a", "\\", "\"", ":", "1", ",",
      "\\", "\"", "b", "\\", "\"", ":", "[", "1", ",", "2", "]",
      "}", "\"", FragmentTail>>

\* C8: two runs in one process on the same resource that both return a
\* fragment return the same text, and the text lists record keys in the
\* order encountered.
C8_Idempotent ==
    \A e1, e2 \in Evals :
        (pc[e1] = "resolved" /\ pc[e2] = "resolved" /\ res[e1] = res[e2]) =>
            /\ result[e1].fragment = result[e2].fragment
            /\ (done[e1].val = DataOk => result[e1].fragment = DataOkFragment)

C8_Witness ==
    /\ pc[1] = "resolved" /\ pc[2] = "resolved"
    /\ res[1] = res[2]
    /\ done[1].val = DataOk

\* C7 (as claimed): for every accepted value the consumer, evaluating the
\* emitted fragment, obtains a value deep-equal to it: the same tree of records
\* (keys in order), sequences, strings, numbers, booleans and null.
C7_RoundTrip ==
    cv.st = "imported" => cv.out.ok /\ cv.out.val = cv.v

\* The value with every -0 in it replaced by 0.
RECURSIVE WithoutZeroSign(_)
WithoutZeroSign(v) ==
    CASE v = NegZero -> JNum(0)
      [] v.t = "arr" -> JArr([i \in 1..Len(v.items) |-> WithoutZeroSign(v.items[i])])
      [] v.t = "obj" -> JObj([i \in 1..Len(v.props) |->
                                 <<v.props[i][1], WithoutZeroSign(v.props[i][2])>>])
      [] OTHER -> v

\* C7 (amended): for every accepted value the consumer, evaluating the emitted
\* fragment, obtains the same tree of records (keys in order), sequences,
\* strings, numbers, booleans and null, but for the sign of zero: every -0 of
\* the value is read back as 0.
C7_RoundTripButZeroSign ==
    cv.st = "imported" => cv.out.ok /\ cv.out.val = WithoutZeroSign(cv.v)

C7_Witness ==
    /\ cv.st = "imported"
    /\ cv.v = JObj(<< <<<<"4", "2", "9", "4", "9", "6", "7", "2", "9", "4">>, NegZero>>,
                      <<<<"\"", "b">>, JStr(<<Unit(55296), "\t">>)>> >>)
    /\ cv.out.val = JObj(<< <<<<"4", "2", "9", "4", "9", "6", "7", "2", "9", "4">>, JNum(0)>>,
                            <<<<"\"", "b">>, JStr(<<Unit(55296), "\t">>)>> >>)

\* An evaluation between its start (register) and its teardown (revert).
InSession(e) == pc[e] \in {"load", "check", "await", "catch", "finally"}

\* C11: while an evaluation is between its own start and its own teardown the
\* process-wide registration is active: no other evaluation's teardown has
\* deactivated it.
C11_SessionStaysActive ==
    \A e \in Evals : InSession(e) => hook # NoHook

\* C12: every run executes the target module anew: whenever an evaluation's
\* load step yields a module, the resource was not in the module cache, so
\* neither the module nor its default export comes from an earlier evaluation.
C12_LoadsFresh ==
    [][\A e \in Evals :
          (pc[e] = "load" /\ pc'[e] = "check") => ~InRequireCache(cache[res[e]])]_vars

\* C13: the steps of an evaluation occur in the order session start, execute,
\* session end, validate, encode. The validator and the encoder run only after
\* this evaluation's teardown and only on a value the execution produced; a
\* fragment is returned only for a value the validator accepted, and it is the
\* encoding of that value; a failed execution reaches neither step, and a value
\* the validator rejects gives no fragment.
C13_GateAndOrder ==
    \A e \in Evals :
        /\ pc[e] \in {"load", "check", "await", "catch", "finally"} =>
               /\ registers[e] = 1 /\ reverts[e] = 0
               /\ result[e] = Unsettled
        /\ pc[e] \in {"validate", "encode", "resolved"} =>
               /\ registers[e] = 1 /\ reverts[e] = 1 /\ hook # e
               /\ done[e].kind = "normal"
        /\ pc[e] \in {"encode", "resolved"} => ~isSerializable(res[e], done[e].val).bad
        /\ result[e].kind = "resolved" <=> pc[e] = "resolved"
        /\ pc[e] = "resolved" => result[e] = ResolvedWith(Encode(done[e].val))
        /\ done[e].kind = "throw" => pc[e] \in {"finally", "outer", "rejected"}
        /\ (pc[e] = "rejected" /\ done[e].kind = "normal") =>
               /\ isSerializable(res[e], done[e].val).bad
               /\ result[e].kind = "rejected"

C13_Witness ==
    /\ pc[1] = "resolved" /\ result[1].fragment = DataOkFragment
    /\ pc[2] = "rejected" /\ done[2] = Normal(DataFn)

\* C14: run fails with the missing-default-export error only for a module
\* that exposes no default export; a module with a default export, whatever
\* its value, is never reported as missing it.
C14_MissingOnlyWhenAbsent ==
    \A e \in Evals :
        (pc[e] = "rejected" /\ caught[e] = NoDefaultError) => mod[e] = Absent

\* C15: an evaluation writes at most one diagnostic line, tagged
\* [next-plugin-preval]; the line is written only by a failed execution, never
\* by one that produced a value, and it is on the error stream before the
\* error is raised to the caller of run.
C15_OneDiagnosticOnFailure ==
    \A e \in Evals :
        /\ Len(logged[e]) <= 1
        /\ logged[e] # <<>> =>
               /\ logged[e][1][1] = LogTag
               /\ logged[e][1][2] = caught[e].stk
               /\ done[e].kind = "throw"
               /\ pc[e] \in {"finally", "outer", "rejected"}
        /\ (done[e].kind = "normal" \/ pc[e] \in {"validate", "encode", "resolved"}) =>
               logged[e] = <<>>
        /\ (result[e].kind = "rejected" /\ done[e].kind = "throw"
               /\ HasStackToLog(caught[e])) => Len(logged[e]) = 1
        /\ (pc[e] \in {"finally", "outer"}) => result[e] = Unsettled

C15_Witness ==
    /\ pc[1] = "rejected" /\ Len(logged[1]) = 1 /\ caught[1] = ErrObj
    /\ pc[2] = "resolved" /\ logged[2] = <<>>

\* C16: the completion callback of a loader invocation is never invoked twice,
\* and its one invocation carries the fragment when the evaluation resolved
\* and the error when it rejected, also when the callback throws while it is
\* given the result.
C16_CallbackOnce ==
    \A e \in Evals :
        /\ Len(calls[e].seq) <= 1
        /\ calls[e].seq # <<>> =>
               calls[e].seq[1] = (IF pc[e] = "resolved" THEN "result" ELSE "error")

\* C17: when evaluations overlapped, in whatever order their starts and
\* teardowns came, the process-wide registration is inactive once every
\* evaluation that was started has settled.
C17_NoLeakUnderOverlap ==
    (overlapped /\ NoneInFlight) => hook = NoHook

C17_Witness ==
    /\ overlapped
    /\ \A e \in Evals : pc[e] \in Settled
    /\ hook = NoHook

\* An evaluation that has started and not settled, while the thread is not its own.
Suspended(e) == InFlight(e) /\ cur # e

\* C18 (as claimed): the load and the default-export check of an evaluation run
\* on the thread with the registration this evaluation made, and an evaluation
\* gives up the thread only at the await of the default export.
C18_OnlyAwaitSuspends ==
    \A e \in Evals :
        /\ pc[e] \in {"load", "check"} => (cur = e /\ hook = e)
        /\ Suspended(e) => pc[e] = "await"

\* C18 (amended): the load and the default-export check of an evaluation run
\* on the thread with the registration this evaluation made; an evaluation
\* gives up the thread at the await of the default export and, after its
\* teardown, at the await of the inner function's result, and nowhere else.
C18_LoadInsideOwnSession ==
    \A e \in Evals :
        /\ pc[e] \in {"load", "check"} => (cur = e /\ hook = e)
        /\ Suspended(e) => pc[e] \in {"await", "outer"}
        /\ pc[e] = "outer" => (cur # e /\ reverts[e] = 1)

C18_Witness ==
    /\ pc[1] = "outer" /\ Suspended(1)
    /\ pc[2] = "check" /\ cur = 2 /\ hook = 2

====
